---- MODULE Spec2Model ----
(***************************************************************************)
(* Model of the archival job of modula-edocs (src/job/main.py): discovery  *)
(* of documents with staged inline payloads, streaming decode to the       *)
(* staging tree, one tar.gz per staging directory, move into the bucket    *)
(* mount, and the update of the originating documents.                     *)
(*                                                                         *)
(* Strings of the program are modelled as sequences of one-character       *)
(* strings, byte strings written to disk as sequences of integers 0..255.  *)
(* Instants are minutes on the local (America/Costa_Rica) clock.           *)
(***************************************************************************)
EXTENDS Integers, Sequences, FiniteSets, TLC

(***************************************************************************)
(* Bounds of the model.                                                    *)
(***************************************************************************)
\* Number of job invocations (process starts) in one behaviour.
MaxRuns == 2

\* Number of calls of get_client, over all threads, in one behaviour.
MaxCalls == 3

\* BASE64_CHUNK_SIZE of main.py:28 is 8192; the model's payloads are a few
\* characters long, so the chunk is scaled down to make payloads span chunks.
BASE64_CHUNK_SIZE == 4

(***************************************************************************)
(* Program constants.                                                      *)
(***************************************************************************)
SAMPLE_LIMIT == 4096
MIN_CLAVE_LEN == 50
STALENESS_MINUTES == 180
UTC_OFFSET_MINUTES == 360
MINUTES_PER_HOUR == 60
HOURS_PER_DAY == 24

customer_id == "stg-modula-00001"
\* The pattern of the customer id: ^(stg|prd)-modula-\d{5}$
CUSTOMER_PREFIXES == << <<"s","t","g">>, <<"p","r","d">> >>
CUSTOMER_INFIX == <<"-","m","o","d","u","l","a","-">>
CUSTOMER_DIGITS == 5
EXIT_OK == 0
EXIT_FAILURE == 1
STAGE_FILES_ROOT == "/tmp/staged-files"
FILES_ROOT == "/gcp-bucket"
TAR_TMP_ROOT == "/tmp/tar-tmp"

collections ==
  << "edocs_facturas_electronicas",
     "edocs_notas_credito_electronicas",
     "edocs_tiquetes_electronicos",
     "edocs_ordenes_internas",
     "edocs_proformas" >>

\* The five file kinds, in the order of file_fields / of the $set stage.
file_fields == << "pdf", "html", "xml", "mh_xml", "mr_xml" >>

Kinds == { file_fields[i] : i \in 1..Len(file_fields) }

(***************************************************************************)
(* Python helpers: slices and ranges.                                      *)
(***************************************************************************)
Min(a, b) == IF a <= b THEN a ELSE b

\* s[a:b] with 0 <= a <= b (Python clamps the bounds to the length).
Slice(s, a, b) == SubSeq(s, Min(a, Len(s)) + 1, Min(b, Len(s)))

\* The set of elements of a sequence.
Range(s) == { s[i] : i \in 1..Len(s) }

(***************************************************************************)
(* Base64: the alphabet, the classification heuristic and b64decode.       *)
(***************************************************************************)
B64_DATA_CHARS ==
  << "A","B","C","D","E","F","G","H","I","J","K","L","M","N","O","P",
     "Q","R","S","T","U","V","W","X","Y","Z","a","b","c","d","e","f",
     "g","h","i","j","k","l","m","n","o","p","q","r","s","t","u","v",
     "w","x","y","z","0","1","2","3","4","5","6","7","8","9","+","/" >>

_B64_ALPHABET == Range(B64_DATA_CHARS) \cup {"="}

_B64_WHITESPACE == {" ", "\n", "\r", "\t"}

\* bytes.strip() removes ASCII whitespace at both ends.
STRIP_CHARS == {" ", "\n", "\r", "\t"}

\* Six-bit value of a data character of the alphabet.
B64Val(c) == (CHOOSE i \in 1..Len(B64_DATA_CHARS) : B64_DATA_CHARS[i] = c) - 1

RECURSIVE LStrip(_)
LStrip(s) == IF s # <<>> /\ Head(s) \in STRIP_CHARS THEN LStrip(Tail(s)) ELSE s

RECURSIVE RStrip(_)
RStrip(s) ==
  IF s # <<>> /\ s[Len(s)] \in STRIP_CHARS
  THEN RStrip(SubSeq(s, 1, Len(s) - 1))
  ELSE s

Strip(s) == RStrip(LStrip(s))

_is_probably_base64(data) ==
  LET sample == Strip(data) IN
    /\ sample # <<>>
    /\ Len(sample) % 4 # 1
    /\ \A i \in 1..Min(Len(sample), SAMPLE_LIMIT) :
          sample[i] \in _B64_WHITESPACE \/ sample[i] \in _B64_ALPHABET

DecodeError == "binascii.Error"

\* binascii.a2b_base64 in its default (non-strict) mode: characters outside
\* the alphabet are discarded, a pad that completes a quantum ends the
\* parse, and data that ends inside a quantum is an error.
RECURSIVE A2B(_, _, _, _, _, _)
A2B(s, i, quad_pos, leftchar, pads, out) ==
  IF i > Len(s)
  THEN IF quad_pos # 0 THEN DecodeError ELSE out
  ELSE
    LET c == s[i] IN
      IF c = "="
      THEN IF quad_pos >= 2 /\ quad_pos + pads + 1 >= 4
           THEN out
           ELSE A2B(s, i + 1, quad_pos, leftchar,
                    IF quad_pos >= 2 THEN pads + 1 ELSE pads, out)
      ELSE IF c \notin Range(B64_DATA_CHARS)
      THEN A2B(s, i + 1, quad_pos, leftchar, pads, out)
      ELSE
        LET v == B64Val(c) IN
          CASE quad_pos = 0 -> A2B(s, i + 1, 1, v, 0, out)
            [] quad_pos = 1 ->
                 A2B(s, i + 1, 2, v % 16, 0,
                     Append(out, (leftchar * 4 + v \div 16) % 256))
            [] quad_pos = 2 ->
                 A2B(s, i + 1, 3, v % 4, 0,
                     Append(out, (leftchar * 16 + v \div 4) % 256))
            [] quad_pos = 3 ->
                 A2B(s, i + 1, 0, 0, 0,
                     Append(out, (leftchar * 64 + v) % 256))

b64decode(s) == A2B(s, 1, 0, 0, 0, <<>>)

\* A raw payload is written byte for byte; a byte is named by its character.
RawBytes(s) == s

(***************************************************************************)
(* write_base64_stream: the content of the output file and whether the     *)
(* call returned ("ok") or raised.  The file is opened for writing first,  *)
(* so a decode error leaves the chunks decoded so far.                      *)
(***************************************************************************)
RECURSIVE DecodeChunks(_, _, _, _)
DecodeChunks(b64_bytes, i, buffer, out) ==
  IF i >= Len(b64_bytes)
  THEN \* after the loop: pad and decode the carry-over
    IF buffer = <<>>
    THEN [ok |-> TRUE, bytes |-> out]
    ELSE
      LET padding == (4 - (Len(buffer) % 4)) % 4
          padded == buffer \o [k \in 1..padding |-> "="]
          dec == b64decode(padded)
      IN IF dec = DecodeError
         THEN [ok |-> FALSE, bytes |-> out]
         ELSE [ok |-> TRUE, bytes |-> out \o dec]
  ELSE
    LET buf == buffer \o Slice(b64_bytes, i, i + BASE64_CHUNK_SIZE)
        excess == Len(buf) % 4
        to_decode == SubSeq(buf, 1, Len(buf) - excess)
        carry == SubSeq(buf, Len(buf) - excess + 1, Len(buf))
        dec == IF to_decode = <<>> THEN <<>> ELSE b64decode(to_decode)
    IN IF dec = DecodeError
       THEN [ok |-> FALSE, bytes |-> out]
       ELSE DecodeChunks(b64_bytes, i + BASE64_CHUNK_SIZE, carry, out \o dec)

write_base64_stream(b64_bytes) ==
  IF ~ _is_probably_base64(b64_bytes)
  THEN [ok |-> TRUE, bytes |-> RawBytes(b64_bytes)]
  ELSE DecodeChunks(b64_bytes, 0, <<>>, <<>>)

(***************************************************************************)
(* Claves and the staging path derived from them.                          *)
(***************************************************************************)
\* Relative staging path: year / month / day / branch_code / edoc_type.
clave_to_rel_path(clave) ==
  LET year == Slice(clave, 7, 9)
      day == Slice(clave, 6, 8)
      month == Slice(clave, 5, 7)
      branch_code == Slice(clave, 21, 24)
      edoc_type == Slice(clave, 29, 31)
  IN << year, month, day, branch_code, edoc_type >>

\* "/".join(parts)
RECURSIVE JoinSlash(_)
JoinSlash(parts) ==
  IF parts = <<>> THEN <<>>
  ELSE IF Len(parts) = 1 THEN parts[1]
  ELSE parts[1] \o <<"/">> \o JoinSlash(Tail(parts))

\* Path(filename).name for the file names of the model (no separators in
\* a base name; a directory prefix ends with "/").
RECURSIVE BaseName(_)
BaseName(filename) ==
  IF \E i \in 1..Len(filename) : filename[i] = "/"
  THEN BaseName(Tail(filename))
  ELSE filename

(***************************************************************************)
(* Documents.  A document and an attachment are functions from field       *)
(* names to values, so that a missing field is a name outside the DOMAIN   *)
(* and $mergeObjects is function override.                                 *)
(***************************************************************************)
\* The binary field: null, or a payload (text or BSON binary).
NullBinary == [null |-> TRUE, data |-> <<>>]

Bin(s) == [null |-> FALSE, data |-> s]

\* A 50-digit clave: 506, day, month, year, taxpayer id, branch, terminal,
\* document type, consecutive number (its last digit is serial), situation
\* and security code.
MkClave(dd, mm, yy, branch, type, serial) ==
  [i \in 1..50 |->
     CASE i = 1 -> "5" [] i = 2 -> "0" [] i = 3 -> "6"
       [] i \in 4..5 -> dd[i - 3]
       [] i \in 6..7 -> mm[i - 5]
       [] i \in 8..9 -> yy[i - 7]
       [] i \in 22..24 -> branch[i - 21]
       [] i \in 30..31 -> type[i - 29]
       [] i = 41 -> serial
       [] OTHER -> "0"]

CLAVE_A == MkClave(<<"0","3">>, <<"1","1">>, <<"2","5">>, <<"0","0","1">>, <<"0","1">>, "1")
CLAVE_B == MkClave(<<"0","4">>, <<"1","1">>, <<"2","5">>, <<"0","0","1">>, <<"0","1">>, "2")
CLAVE_C == MkClave(<<"0","3">>, <<"1","1">>, <<"2","5">>, <<"0","0","2">>, <<"0","1">>, "3")

\* doc.get("edoc_json", {}).get("Clave", "unknown")
UNKNOWN_CLAVE == <<"u","n","k","n","o","w","n">>

DocClave(doc) == IF "clave" \in DOMAIN doc THEN doc.clave ELSE UNKNOWN_CLAVE

\* Payloads of the model.
P_ABC == <<"Q","U","J","D">>
P_LONG == <<"R","E","V","G","R","0","h","J","S","g","=","=">>
P_UNPADDED == <<"Q","U","I">>
P_BAD == <<"Q","U","J","D","Q","=","=","=">>
P_RAW == <<"#","Q">>
\* Base64 text with line breaks inside, and with one at the end.
P_WRAPPED == <<"Q","\n","U","J","\n","D">>
P_NEWLINE_END == <<"Q","U","J","D","\n">>

Staged(filename, payload) ==
  [status |-> "staged", filename |-> filename, binary |-> Bin(payload)]

\* A legacy attachment: no status field.
Legacy(filename, payload) == [filename |-> filename, binary |-> Bin(payload)]

StagedNoBinary(filename) ==
  [status |-> "staged", filename |-> filename, binary |-> NullBinary]

\* A legacy attachment whose payload is null.
LegacyNoBinary(filename) == [filename |-> filename, binary |-> NullBinary]

(***************************************************************************)
(* Time: get_timestamp, from_local_to_utc, strftime("%H-%M").              *)
(***************************************************************************)
from_local_to_utc(t) == t + UTC_OFFSET_MINUTES

hhmm_of(t) == << (t \div MINUTES_PER_HOUR) % HOURS_PER_DAY, t % MINUTES_PER_HOUR >>

three_hours_ago_utc(t) == from_local_to_utc(t) - STALENESS_MINUTES

\* Local start times of the runs of the model: 10:00 and 10:01 of one day
\* and 10:00 of the next.
RunTimes == {600, 601, 2040}

(***************************************************************************)
(* Paths.                                                                  *)
(***************************************************************************)
\* f"{edoc_type}_{hhmm}.tar.gz"
TarName(edoc_type, hhmm) == [edoc_type |-> edoc_type, hhmm |-> hhmm]

\* FILES_ROOT / customer_id / year / month / day / branch / tar_name
TarPath(rel_path, hhmm) ==
  [root |-> FILES_ROOT, customer |-> customer_id,
   dir |-> SubSeq(rel_path, 1, Len(rel_path) - 1),
   name |-> TarName(rel_path[Len(rel_path)], hhmm)]

\* TAR_TMP_ROOT / tar_name
TarTmpPath(rel_path, hhmm) ==
  [root |-> TAR_TMP_ROOT, name |-> TarName(rel_path[Len(rel_path)], hhmm)]

\* An archive file: its members by name, and whether it was written whole.
Archive(members) == [complete |-> TRUE, members |-> members]

PartialFile == [complete |-> FALSE, members |-> <<>>]

(***************************************************************************)
(* The stores the runs start from.  An attachment already in the bucket    *)
(* comes with the archive an earlier run (at 00:00) moved there.           *)
(***************************************************************************)
F_A == <<"a">>
F_B == <<"b">>
F_X == <<"x">>
F_DIR_A == <<"d", "/", "a">>

OLD_HHMM == <<0, 0>>

InBucket(filename, clave) ==
  [status |-> "bucket", filename |-> filename, binary |-> NullBinary,
   moved_at |-> 0, tarball_path |-> TarPath(clave_to_rel_path(clave), OLD_HHMM)]

Doc(coll, clave, fecha, files) ==
  [coll |-> collections[coll], clave |-> clave, fecha |-> fecha, files |-> files]

DocNoClave(coll, fecha, files) ==
  [coll |-> collections[coll], fecha |-> fecha, files |-> files]

Stores ==
  { \* two documents of two collections with the same staging directory
    << Doc(1, CLAVE_A, 700, [pdf |-> Staged(F_A, P_ABC)]),
       Doc(2, CLAVE_B, 700, [pdf |-> Staged(F_B, P_LONG)]) >>,
    \* the same staging directory and the same file name
    << Doc(1, CLAVE_A, 700, [pdf |-> Staged(F_A, P_ABC)]),
       Doc(1, CLAVE_B, 700, [pdf |-> Staged(F_DIR_A, P_LONG)]) >>,
    \* one kind staged, one already in the bucket; a legacy attachment
    << Doc(1, CLAVE_A, 700, [pdf |-> Staged(F_A, P_ABC), xml |-> InBucket(F_X, CLAVE_A)]),
       Doc(3, CLAVE_C, 780, [html |-> Legacy(F_B, P_UNPADDED)]) >>,
    \* a payload that does not decode, followed by good ones
    << Doc(1, CLAVE_A, 700, [pdf |-> Staged(F_A, P_BAD), xml |-> Staged(F_X, P_ABC)]),
       Doc(2, CLAVE_C, 700, [pdf |-> Staged(F_B, P_RAW)]) >>,
    \* a document without clave, followed by a good one
    << DocNoClave(1, 700, [pdf |-> Staged(F_A, P_ABC)]),
       Doc(2, CLAVE_C, 700, [pdf |-> Staged(F_B, P_ABC)]) >>,
    \* the second document becomes eligible only for a run of the next day
    << Doc(1, CLAVE_A, 700, [pdf |-> Staged(F_A, P_ABC)]),
       Doc(1, CLAVE_B, 900, [pdf |-> Staged(F_B, P_LONG)]) >>,
    \* attachments without payload
    << Doc(1, CLAVE_A, 700, [pdf |-> Staged(F_A, P_ABC), html |-> StagedNoBinary(F_B)]),
       Doc(5, CLAVE_C, 700, [pdf |-> StagedNoBinary(F_A)]) >>,
    \* a document wholly in the bucket and a legacy attachment without payload
    << Doc(1, CLAVE_A, 700, [pdf |-> Staged(F_A, P_ABC)]),
       Doc(1, CLAVE_C, 700, [xml |-> InBucket(F_X, CLAVE_C)]),
       Doc(2, CLAVE_B, 700, [html |-> LegacyNoBinary(F_B)]) >>,
    \* base64 payloads with line breaks
    << Doc(1, CLAVE_A, 700, [pdf |-> Staged(F_A, P_NEWLINE_END)]),
       Doc(2, CLAVE_C, 700, [pdf |-> Staged(F_B, P_WRAPPED)]) >> }

\* The archives of the attachments a store holds in status bucket.
InitialBucket(st) ==
  LET refs == { r \in (DOMAIN st) \X Kinds :
                  /\ r[2] \in DOMAIN st[r[1]].files
                  /\ "tarball_path" \in DOMAIN st[r[1]].files[r[2]] }
      paths == { st[r[1]].files[r[2]].tarball_path : r \in refs }
  IN [p \in paths |->
        Archive([n \in { st[r[1]].files[r[2]].filename :
                           r \in { q \in refs : st[q[1]].files[q[2]].tarball_path = p } }
                   |-> <<79, 76, 68>>])]

(***************************************************************************)
(* State.                                                                  *)
(***************************************************************************)
VARIABLES
  store,               \* the tenant database: document id -> document
  stage,               \* STAGE_FILES_ROOT/customer: edoc directory -> (file name -> bytes)
  tar_tmp,             \* TAR_TMP_ROOT: path -> archive file
  bucket,              \* FILES_ROOT: path -> archive file
  cross_device,        \* whether TAR_TMP_ROOT and FILES_ROOT are on different devices
  pc,                  \* position of the job process
  runs,                \* number of invocations so far
  now_local,           \* get_timestamp() of the current run
  exc,                 \* the exception that ended the run (logged by __main__)
  staged_docs_by_dir,  \* rel_key -> (collection -> set of document ids)
  coll_idx,            \* index of the collection of the sweep
  work,                \* the (document, file kind) pairs of the cursor still to visit
  edoc_dirs,           \* directories of save_staged_files still to archive
  edoc_dir,            \* the directory being archived
  coll_map,            \* the (collection, oid set) pairs still to update
  other,               \* the position and locals of a second job process, while
                       \* the process above is the one that takes the steps
  argv,                \* the --customer-id argument of the invocation
  exit_code,           \* <<>> while the process runs, then << its exit status >>
  mongo,               \* the connection of the process: "none", "failed" or "active"
  environ,             \* os.environ: the names of the variables that are set
  _CLIENT,             \* db.py: the installed MongoClient, or NoClient
  _CLIENT_LOCK,        \* db.py: the thread that holds the lock, or LockFree
  gc,                  \* thread -> its position in get_client, its local client,
                       \* what its last call returned and whether it raised
  clients,             \* the MongoClient objects constructed so far
  pinged,              \* those whose ping succeeded
  calls                \* number of calls of get_client so far

\* The state of db.py.
client_vars == << _CLIENT, _CLIENT_LOCK, gc, clients, pinged, calls >>

\* The state of the job and of what it works on.
\* What __main__ holds of an invocation.
main_vars == << argv, exit_code, mongo >>

job_vars ==
  << store, stage, tar_tmp, bucket, cross_device, other, pc, runs, now_local, exc,
     staged_docs_by_dir, coll_idx, work, edoc_dirs, edoc_dir, coll_map, main_vars >>

vars == << job_vars, client_vars, environ >>

EmptyMap == [x \in {} |-> 0]

Without(f, key) == [x \in (DOMAIN f) \ {key} |-> f[x]]

NoExc == [op |-> "none", doc |-> 0, kind |-> "", dir |-> <<>>, coll |-> ""]

Raised(op, doc, kind, dir, coll) ==
  [op |-> op, doc |-> doc, kind |-> kind, dir |-> dir, coll |-> coll]

hhmm == hhmm_of(now_local)

tar_tmp_path == TarTmpPath(edoc_dir, hhmm)

tar_path == TarPath(edoc_dir, hhmm)

\* The locals of a job process that has not started.
NotStarted ==
  [pc |-> "idle", now_local |-> 0, exc |-> NoExc, staged_docs_by_dir |-> EmptyMap,
   coll_idx |-> 1, work |-> <<>>, edoc_dirs |-> {}, edoc_dir |-> <<>>, coll_map |-> <<>>,
   argv |-> <<>>, exit_code |-> <<>>, mongo |-> "none"]

\* The locals of __main__ before the process started.
MainInit ==
  /\ argv = <<>>
  /\ exit_code = <<>>
  /\ mongo = "none"

\* _CLIENT = None
NoClient == 0

LockFree == "free"

\* The threads of a process that call get_client.
Threads == {"MainThread", "Thread-1"}

required_env_vars == {"MONGO_USERNAME", "MONGO_PASSWORD", "MONGO_CLUSTER"}

\* A thread outside get_client that has not called it yet.
NotCalled == [pc |-> "out", client |-> NoClient, ret |-> NoClient, raised |-> FALSE]

\* db.py after import.
ClientInit ==
  /\ _CLIENT = NoClient
  /\ _CLIENT_LOCK = LockFree
  /\ gc = [t \in Threads |-> NotCalled]
  /\ clients = {}
  /\ pinged = {}
  /\ calls = 0

Init ==
  /\ MainInit
  /\ store \in Stores
  /\ ClientInit
  /\ environ = required_env_vars
  /\ other = NotStarted
  /\ bucket = InitialBucket(store)
  /\ stage = EmptyMap
  /\ tar_tmp = EmptyMap
  /\ cross_device \in BOOLEAN
  /\ pc = "idle"
  /\ runs = 0
  /\ now_local = 0
  /\ exc = NoExc
  /\ staged_docs_by_dir = EmptyMap
  /\ coll_idx = 1
  /\ work = <<>>
  /\ edoc_dirs = {}
  /\ edoc_dir = <<>>
  /\ coll_map = <<>>

(***************************************************************************)
(* __main__ and the start of run_job.                                      *)
(***************************************************************************)
\* re.match(r"^(stg|prd)-modula-\d{5}$", customer_id): $ also matches
\* before a line break that ends the string.
Digits == {"0", "1", "2", "3", "4", "5", "6", "7", "8", "9"}

MatchCustomerId(s) ==
  LET body == IF s # <<>> /\ s[Len(s)] = "\n" THEN SubSeq(s, 1, Len(s) - 1) ELSE s
  IN /\ Len(body) = Len(CUSTOMER_PREFIXES[1]) + Len(CUSTOMER_INFIX) + CUSTOMER_DIGITS
     /\ \E i \in 1..Len(CUSTOMER_PREFIXES) :
          SubSeq(body, 1, Len(CUSTOMER_PREFIXES[i])) = CUSTOMER_PREFIXES[i]
     /\ SubSeq(body, Len(CUSTOMER_PREFIXES[1]) + 1,
               Len(CUSTOMER_PREFIXES[1]) + Len(CUSTOMER_INFIX)) = CUSTOMER_INFIX
     /\ \A i \in (Len(body) - CUSTOMER_DIGITS + 1)..Len(body) : body[i] \in Digits

\* The --customer-id arguments of the model: the tenant of the model and
\* arguments the pattern rejects.
ARG_TENANT == <<"s","t","g","-","m","o","d","u","l","a","-","0","0","0","0","1">>
ARG_DEV == <<"d","e","v","-","m","o","d","u","l","a","-","0","0","0","0","1">>
ARG_FOUR_DIGITS == <<"p","r","d","-","m","o","d","u","l","a","-","0","0","0","1">>
ARG_SUFFIX == <<"s","t","g","-","m","o","d","u","l","a","-","0","0","0","0","1","x">>

ArgIds == {ARG_TENANT, ARG_DEV, ARG_FOUR_DIGITS, ARG_SUFFIX, <<>>}

\* The environments a process starts with: the three variables set, or one
\* of them missing.
Environs == { required_env_vars, required_env_vars \ {"MONGO_PASSWORD"} }

\* A new process can be started: none ran yet, or the last one has exited.
CanStart == (pc = "idle" \/ exit_code # <<>>) /\ runs < MaxRuns

\* The locals of run_job of a process that ends before run_job staged
\* anything.
NothingRun ==
  /\ staged_docs_by_dir' = EmptyMap
  /\ coll_idx' = 1
  /\ work' = <<>>
  /\ edoc_dirs' = {}
  /\ edoc_dir' = <<>>
  /\ coll_map' = <<>>

\* The customer id does not match the pattern: sys.exit(1).
MainInvalidCustomerId ==
  /\ CanStart
  /\ \E arg \in ArgIds : \E env \in Environs :
       /\ ~ MatchCustomerId(arg)
       /\ argv' = arg
       /\ environ' = env
  /\ runs' = runs + 1
  /\ pc' = "rejected"
  /\ exit_code' = << EXIT_FAILURE >>
  /\ mongo' = "none"
  /\ exc' = NoExc
  /\ NothingRun
  /\ UNCHANGED << store, stage, tar_tmp, bucket, cross_device, other, client_vars, now_local >>

\* A required variable is not set: sys.exit(1).
MainMissingEnv ==
  /\ CanStart
  /\ \E arg \in ArgIds : \E env \in Environs :
       /\ MatchCustomerId(arg)
       /\ ~ (required_env_vars \subseteq env)
       /\ argv' = arg
       /\ environ' = env
  /\ runs' = runs + 1
  /\ pc' = "rejected"
  /\ exit_code' = << EXIT_FAILURE >>
  /\ mongo' = "none"
  /\ exc' = NoExc
  /\ NothingRun
  /\ UNCHANGED << store, stage, tar_tmp, bucket, cross_device, other, client_vars, now_local >>

\* run_job is called and get_client raises RuntimeError: the MongoClient
\* could not be constructed or its ping failed.
ConnectFails ==
  /\ CanStart
  /\ \E arg \in ArgIds : \E env \in Environs :
       /\ MatchCustomerId(arg)
       /\ required_env_vars \subseteq env
       /\ argv' = arg
       /\ environ' = env
  /\ runs' = runs + 1
  /\ pc' = "failed"
  /\ exit_code' = <<>>
  /\ mongo' = "failed"
  /\ exc' = Raised("RuntimeError", 0, "", <<>>, "")
  /\ NothingRun
  /\ UNCHANGED << store, stage, tar_tmp, bucket, cross_device, other, client_vars, now_local >>

\* The checks of __main__ pass, get_client returns the client and run_job
\* takes the time of the run.
StartRun ==
  /\ CanStart
  /\ \E arg \in ArgIds : \E env \in Environs :
       /\ MatchCustomerId(arg)
       /\ required_env_vars \subseteq env
       /\ argv' = arg
       /\ environ' = env
  /\ \E t \in RunTimes : t > now_local /\ now_local' = t
  /\ runs' = runs + 1
  /\ pc' = "find"
  /\ exit_code' = <<>>
  /\ mongo' = "active"
  /\ exc' = NoExc
  /\ NothingRun
  /\ UNCHANGED << store, stage, tar_tmp, bucket, cross_device, other, client_vars >>

\* Mutant of Exit: the except clause exits with status 0.
Exit_AlwaysZero ==
  /\ pc \in {"done", "failed"}
  /\ exit_code = <<>>
  /\ exit_code' = << EXIT_OK >>
  /\ UNCHANGED << store, stage, tar_tmp, bucket, cross_device, other, client_vars, environ,
                  argv, mongo, pc, runs, now_local, exc, staged_docs_by_dir, coll_idx,
                  work, edoc_dirs, edoc_dir, coll_map >>

\* run_job returned: sys.exit(0); an exception reached the except clause
\* of __main__: it is logged and sys.exit(1).
Exit ==
  /\ pc \in {"done", "failed"}
  /\ exit_code = <<>>
  /\ exit_code' = IF pc = "done" THEN << EXIT_OK >> ELSE << EXIT_FAILURE >>
  /\ UNCHANGED << store, stage, tar_tmp, bucket, cross_device, other, client_vars, environ,
                  argv, mongo, pc, runs, now_local, exc, staged_docs_by_dir, coll_idx,
                  work, edoc_dirs, edoc_dir, coll_map >>

(***************************************************************************)
(* Discovery: the query of run_job and the cursor of one collection.       *)
(***************************************************************************)
\* Mutant of Query: FechaEmision strictly before the cutoff.
Query_StrictlyOlder(doc, cutoff) ==
  /\ doc.fecha < cutoff
  /\ \E k \in Kinds :
        /\ k \in DOMAIN doc.files
        /\ \/ ("status" \in DOMAIN doc.files[k] /\ doc.files[k].status = "staged")
           \/ "status" \notin DOMAIN doc.files[k]

\* Mutant of Query: any kind that exists, whatever its status.
Query_AnyKind(doc, cutoff) ==
  /\ doc.fecha <= cutoff
  /\ \E k \in Kinds : k \in DOMAIN doc.files

\* Mutant of Query: no condition on FechaEmision.
Query_NoCutoff(doc, cutoff) ==
  \E k \in Kinds :
     /\ k \in DOMAIN doc.files
     /\ \/ ("status" \in DOMAIN doc.files[k] /\ doc.files[k].status = "staged")
        \/ "status" \notin DOMAIN doc.files[k]

Query(doc, cutoff) ==
  /\ doc.fecha <= cutoff
  /\ \E k \in Kinds :
        /\ k \in DOMAIN doc.files
        /\ \/ ("status" \in DOMAIN doc.files[k] /\ doc.files[k].status = "staged")
           \/ "status" \notin DOMAIN doc.files[k]

\* for file_data in files.values(), for one document of the cursor
DocItems(st, d) ==
  LET ks == SelectSeq(file_fields, LAMBDA k : k \in DOMAIN st[d].files)
  IN [i \in 1..Len(ks) |->
        [id |-> d, clave |-> DocClave(st[d]), kind |-> ks[i],
         file_data |-> st[d].files[ks[i]]]]

RECURSIVE CursorItems(_, _)
CursorItems(st, ids) ==
  IF ids = {} THEN <<>>
  ELSE LET d == CHOOSE x \in ids : \A y \in ids : x <= y
       IN DocItems(st, d) \o CursorItems(st, ids \ {d})

\* Mutant of NextCollection: save_staged_files is called inside the loop.
NextCollection_SaveInsideLoop == pc' = "sweep_done" /\ coll_idx' = coll_idx

\* End of the loop over one collection: the next one, or the end of the sweep.
NextCollection ==
  IF coll_idx = Len(collections)
  THEN pc' = "sweep_done" /\ coll_idx' = coll_idx
  ELSE pc' = "find" /\ coll_idx' = coll_idx + 1

Find ==
  /\ pc = "find"
  /\ LET ids == { d \in DOMAIN store :
                    /\ store[d].coll = collections[coll_idx]
                    /\ Query(store[d], three_hours_ago_utc(now_local)) }
     IN /\ work' = CursorItems(store, ids)
        /\ IF ids = {} THEN NextCollection ELSE pc' = "files" /\ coll_idx' = coll_idx
  /\ UNCHANGED << store, stage, tar_tmp, bucket, cross_device, client_vars, environ, main_vars, other, runs, now_local, exc,
                  staged_docs_by_dir, edoc_dirs, edoc_dir, coll_map >>

(***************************************************************************)
(* Staging of one file.                                                    *)
(***************************************************************************)
HasBinary(file_data) ==
  /\ "binary" \in DOMAIN file_data
  /\ ~ file_data.binary.null
  /\ file_data.binary.data # <<>>

StatusOrStaged(file_data) ==
  IF "status" \in DOMAIN file_data THEN file_data.status ELSE "staged"

\* stage_folder.mkdir(parents=True, exist_ok=True), then the file is written.
WithFile(stg, dir, name, bytes) ==
  LET old == IF dir \in DOMAIN stg THEN stg[dir] ELSE EmptyMap
  IN (dir :> ((name :> bytes) @@ old)) @@ stg

\* The staging tree after the call, and the exception it raised ("" if none).
\* io_ok is whether the file system accepted the write.
stage_file_streaming(stg, clave, filename, binary_b64, io_ok) ==
  IF Len(clave) < MIN_CLAVE_LEN
  THEN [raised |-> "ValueError", stage |-> stg]
  ELSE
    LET stage_folder == clave_to_rel_path(clave)
        safe_filename == BaseName(filename)
        written == write_base64_stream(binary_b64)
    IN IF ~ io_ok
       THEN [raised |-> "OSError",
             stage |-> WithFile(stg, stage_folder, safe_filename, <<>>)]
       ELSE [raised |-> IF written.ok THEN "" ELSE "binascii.Error",
             stage |-> WithFile(stg, stage_folder, safe_filename, written.bytes)]

\* staged_docs_by_dir.setdefault(rel_key, {}).setdefault(coll_name, set()).add(id)
Record(by_dir, rel_key, coll_name, id) ==
  LET by_coll == IF rel_key \in DOMAIN by_dir THEN by_dir[rel_key] ELSE EmptyMap
      oids == IF coll_name \in DOMAIN by_coll THEN by_coll[coll_name] ELSE {}
  IN (rel_key :> ((coll_name :> (oids \cup {id})) @@ by_coll)) @@ by_dir

\* Past the head of work: the next file, or the end of this collection.
Advance ==
  /\ work' = Tail(work)
  /\ IF Tail(work) = <<>> THEN NextCollection ELSE pc' = "files" /\ coll_idx' = coll_idx

SkipFile ==
  /\ pc = "files"
  /\ LET file_data == Head(work).file_data
     IN ~ HasBinary(file_data) \/ StatusOrStaged(file_data) # "staged"
  /\ Advance
  /\ UNCHANGED << store, stage, tar_tmp, bucket, cross_device, client_vars, environ, main_vars, other, runs, now_local, exc,
                  staged_docs_by_dir, edoc_dirs, edoc_dir, coll_map >>

StageFile ==
  /\ pc = "files"
  /\ LET item == Head(work)
         file_data == item.file_data
     IN /\ HasBinary(file_data)
        /\ StatusOrStaged(file_data) = "staged"
        /\ LET res == stage_file_streaming(stage, item.clave, file_data.filename,
                                           file_data.binary.data, TRUE)
           IN /\ res.raised = ""
              /\ stage' = res.stage
              /\ staged_docs_by_dir' =
                   Record(staged_docs_by_dir, JoinSlash(clave_to_rel_path(item.clave)),
                          collections[coll_idx], item.id)
  /\ Advance
  /\ UNCHANGED << store, tar_tmp, bucket, cross_device, client_vars, environ, main_vars, other, runs, now_local, exc,
                  edoc_dirs, edoc_dir, coll_map >>

\* Nothing in run_job catches: the exception ends the run in __main__.
StageFileRaises ==
  /\ pc = "files"
  /\ LET item == Head(work)
         file_data == item.file_data
     IN /\ HasBinary(file_data)
        /\ StatusOrStaged(file_data) = "staged"
        /\ \E io_ok \in BOOLEAN :
             LET res == stage_file_streaming(stage, item.clave, file_data.filename,
                                             file_data.binary.data, io_ok)
             IN /\ res.raised # ""
                /\ stage' = res.stage
                /\ exc' = Raised(res.raised, item.id, item.kind, <<>>, collections[coll_idx])
  /\ pc' = "failed"
  /\ UNCHANGED << store, tar_tmp, bucket, cross_device, client_vars, environ, main_vars, other, runs, now_local,
                  staged_docs_by_dir, coll_idx, work, edoc_dirs, edoc_dir, coll_map >>

(***************************************************************************)
(* End of the sweep: return, or save_staged_files.                         *)
(***************************************************************************)
\* rglob("*") of the staging tree: the directories five levels down.  The
\* tree exists whenever something was staged (mkdir with parents).
RGlobEdocDirs(stg) == { p \in DOMAIN stg : Len(p) = 5 }

NothingStaged ==
  /\ pc = "sweep_done"
  /\ DOMAIN staged_docs_by_dir = {}
  /\ pc' = "done"
  /\ UNCHANGED << store, stage, tar_tmp, bucket, cross_device, client_vars, environ, main_vars, other, runs, now_local, exc,
                  staged_docs_by_dir, coll_idx, work, edoc_dirs, edoc_dir, coll_map >>

SaveStagedFiles ==
  /\ pc = "sweep_done"
  /\ DOMAIN staged_docs_by_dir # {}
  /\ edoc_dirs' = RGlobEdocDirs(stage)
  /\ pc' = "tar"
  /\ UNCHANGED << store, stage, tar_tmp, bucket, cross_device, client_vars, environ, main_vars, other, runs, now_local, exc,
                  staged_docs_by_dir, coll_idx, work, edoc_dir, coll_map >>

(***************************************************************************)
(* One edoc directory: build the archive in TAR_TMP_ROOT.  The order of    *)
(* the directories is the file system's.                                   *)
(***************************************************************************)
\* Mutant of TarOf: no file is added to the archive.
TarOf_NoMembers(stg, dir) == Archive(EmptyMap)

\* tar.add of every file of the directory, by its base name
TarOf(stg, dir) == Archive(stg[dir])

\* Mutant of BuildTar: the staged directory is removed before the move.
BuildTar_DeletesStaged ==
  /\ pc = "tar"
  /\ \E dir \in edoc_dirs :
       /\ dir \in DOMAIN stage
       /\ edoc_dir' = dir
       /\ edoc_dirs' = edoc_dirs \ {dir}
       /\ tar_tmp' = (TarTmpPath(dir, hhmm) :> TarOf(stage, dir)) @@ tar_tmp
       /\ stage' = Without(stage, dir)
  /\ pc' = "move"
  /\ UNCHANGED << store, bucket, cross_device, client_vars, environ, main_vars, other, runs, now_local, exc,
                  staged_docs_by_dir, coll_idx, work, coll_map >>

BuildTar ==
  /\ pc = "tar"
  /\ \E dir \in edoc_dirs :
       /\ dir \in DOMAIN stage
       /\ edoc_dir' = dir
       /\ edoc_dirs' = edoc_dirs \ {dir}
       /\ tar_tmp' = (TarTmpPath(dir, hhmm) :> TarOf(stage, dir)) @@ tar_tmp
  /\ pc' = "move"
  /\ UNCHANGED << store, stage, bucket, cross_device, client_vars, environ, main_vars, other, runs, now_local, exc,
                  staged_docs_by_dir, coll_idx, work, coll_map >>

BuildTarRaises ==
  /\ pc = "tar"
  /\ \E dir \in edoc_dirs :
       /\ edoc_dir' = dir
       /\ edoc_dirs' = edoc_dirs \ {dir}
       /\ tar_tmp' = (TarTmpPath(dir, hhmm) :> PartialFile) @@ tar_tmp
       /\ exc' = Raised("tar", 0, "", dir, "")
  /\ pc' = "failed"
  /\ UNCHANGED << store, stage, bucket, cross_device, client_vars, environ, main_vars, other, runs, now_local,
                  staged_docs_by_dir, coll_idx, work, coll_map >>

\* The loop over edoc_dirs is over: run_job returns and __main__ exits 0.
SaveDone ==
  /\ pc = "tar"
  /\ edoc_dirs = {}
  /\ pc' = "done"
  /\ UNCHANGED << store, stage, tar_tmp, bucket, cross_device, client_vars, environ, main_vars, other, runs, now_local, exc,
                  staged_docs_by_dir, coll_idx, work, edoc_dirs, edoc_dir, coll_map >>

(***************************************************************************)
(* shutil.move(tar_tmp_path, tar_path): os.rename, and when that raises    *)
(* OSError (always so across devices) copy2 to tar_path itself followed by *)
(* os.unlink of the source.                                                *)
(***************************************************************************)
MoveRename ==
  /\ pc = "move"
  /\ ~ cross_device
  /\ tar_tmp_path \in DOMAIN tar_tmp
  /\ bucket' = (tar_path :> tar_tmp[tar_tmp_path]) @@ bucket
  /\ tar_tmp' = Without(tar_tmp, tar_tmp_path)
  /\ pc' = "cleanup"
  /\ UNCHANGED << store, stage, cross_device, client_vars, environ, main_vars, other, runs, now_local, exc,
                  staged_docs_by_dir, coll_idx, work, edoc_dirs, edoc_dir, coll_map >>

\* os.rename raised (the devices differ): the copy opened tar_path for
\* writing and has written part of it.
MoveCopyStart ==
  /\ pc = "move"
  /\ cross_device
  /\ tar_tmp_path \in DOMAIN tar_tmp
  /\ bucket' = (tar_path :> PartialFile) @@ bucket
  /\ pc' = "copying"
  /\ UNCHANGED << store, stage, tar_tmp, cross_device, client_vars, environ, main_vars, other, runs, now_local, exc,
                  staged_docs_by_dir, coll_idx, work, edoc_dirs, edoc_dir, coll_map >>

\* os.rename raised and the copy could not open tar_path.
MoveRaises ==
  /\ pc = "move"
  /\ exc' = Raised("move", 0, "", edoc_dir, "")
  /\ pc' = "failed"
  /\ UNCHANGED << store, stage, tar_tmp, bucket, cross_device, client_vars, environ, main_vars, other, runs, now_local,
                  staged_docs_by_dir, coll_idx, work, edoc_dirs, edoc_dir, coll_map >>

MoveCopyFinish ==
  /\ pc = "copying"
  /\ tar_tmp_path \in DOMAIN tar_tmp
  /\ bucket' = (tar_path :> tar_tmp[tar_tmp_path]) @@ bucket
  /\ tar_tmp' = Without(tar_tmp, tar_tmp_path)
  /\ pc' = "cleanup"
  /\ UNCHANGED << store, stage, cross_device, client_vars, environ, main_vars, other, runs, now_local, exc,
                  staged_docs_by_dir, coll_idx, work, edoc_dirs, edoc_dir, coll_map >>

\* Mutant of MoveCopyRaises: the failure of the move is caught and logged,
\* and save_staged_files goes on with the clean-up and the update.
MoveCopyRaises_Swallowed ==
  /\ pc = "copying"
  /\ pc' = "cleanup"
  /\ UNCHANGED << store, stage, tar_tmp, bucket, cross_device, client_vars, environ, main_vars, other, runs, now_local, exc,
                  staged_docs_by_dir, coll_idx, work, edoc_dirs, edoc_dir, coll_map >>

\* The copy fails, or the process is stopped, with tar_path partly written.
MoveCopyRaises ==
  /\ pc = "copying"
  /\ exc' = Raised("move", 0, "", edoc_dir, "")
  /\ pc' = "failed"
  /\ UNCHANGED << store, stage, tar_tmp, bucket, cross_device, client_vars, environ, main_vars, other, runs, now_local,
                  staged_docs_by_dir, coll_idx, work, edoc_dirs, edoc_dir, coll_map >>

(***************************************************************************)
(* Clean up the staged files, then update the documents of the directory.  *)
(***************************************************************************)
\* staged_docs_by_dir.get(rel_key, {}).items(): collections in the order of
\* their first insertion, which is the order of the sweep.
CollMapItems(by_dir, rel_key) ==
  LET m == IF rel_key \in DOMAIN by_dir THEN by_dir[rel_key] ELSE EmptyMap
      names == SelectSeq(collections, LAMBDA c : c \in DOMAIN m)
  IN [i \in 1..Len(names) |-> [coll_name |-> names[i], oid_set |-> m[names[i]]]]

\* Mutant of CleanUp: the staged files are not removed.
CleanUp_KeepsFiles ==
  /\ pc = "cleanup"
  /\ edoc_dir \in DOMAIN stage
  /\ stage' = stage
  /\ LET items == CollMapItems(staged_docs_by_dir, JoinSlash(edoc_dir))
     IN /\ coll_map' = items
        /\ pc' = IF items = <<>> THEN "tar" ELSE "update"
  /\ UNCHANGED << store, tar_tmp, bucket, cross_device, client_vars, environ, main_vars, other, runs,
                  now_local, exc, staged_docs_by_dir, coll_idx, work, edoc_dirs, edoc_dir >>

CleanUp ==
  /\ pc = "cleanup"
  /\ edoc_dir \in DOMAIN stage
  /\ stage' = Without(stage, edoc_dir)
  /\ LET items == CollMapItems(staged_docs_by_dir, JoinSlash(edoc_dir))
     IN /\ coll_map' = items
        /\ pc' = IF items = <<>> THEN "tar" ELSE "update"
  /\ UNCHANGED << store, tar_tmp, bucket, cross_device, client_vars, environ, main_vars, other, runs, now_local, exc,
                  staged_docs_by_dir, coll_idx, work, edoc_dirs, edoc_dir >>

\* Mutant of merge_file: the patch does not null the binary.
merge_file_KeepsBinary(file_doc, moved_at, tar_str) ==
  [status |-> "bucket", moved_at |-> moved_at, tarball_path |-> tar_str] @@ file_doc

\* $mergeObjects: [file_doc, {status, moved_at, binary, tarball_path}]
merge_file(file_doc, moved_at, tar_str) ==
  [status |-> "bucket", moved_at |-> moved_at, binary |-> NullBinary,
   tarball_path |-> tar_str] @@ file_doc

\* Mutant of UpdatedDoc: the $cond keeps a kind only while it is not bucket.
UpdatedDoc_CondOnStatus(doc, moved_at, tar_str) ==
  [doc EXCEPT !.files =
     [k \in { j \in DOMAIN doc.files :
                 "status" \notin DOMAIN doc.files[j] \/ doc.files[j].status # "bucket" } |->
        merge_file(doc.files[k], moved_at, tar_str)]]

\* The $set stage on one document: every kind that exists is merged, a kind
\* that is missing stays missing ($$REMOVE).
UpdatedDoc(doc, moved_at, tar_str) ==
  [doc EXCEPT !.files =
     [k \in DOMAIN doc.files |-> merge_file(doc.files[k], moved_at, tar_str)]]

\* Mutant of update_documents_for_tarball: the filter on _id is missing.
update_documents_for_tarball_WholeCollection(st, coll_name, oids, tarball_path, moved_at) ==
  IF oids = {} THEN st
  ELSE [d \in DOMAIN st |->
          IF st[d].coll = coll_name
          THEN UpdatedDoc(st[d], moved_at, tarball_path)
          ELSE st[d]]

\* update_many({"_id": {"$in": oids}}, pipeline) on one collection
update_documents_for_tarball(st, coll_name, oids, tarball_path, moved_at) ==
  IF oids = {} THEN st
  ELSE [d \in DOMAIN st |->
          IF d \in oids /\ st[d].coll = coll_name
          THEN UpdatedDoc(st[d], moved_at, tarball_path)
          ELSE st[d]]

Update ==
  /\ pc = "update"
  /\ store' = update_documents_for_tarball(store, Head(coll_map).coll_name,
                                           Head(coll_map).oid_set, tar_path, now_local)
  /\ coll_map' = Tail(coll_map)
  /\ pc' = IF Tail(coll_map) = <<>> THEN "tar" ELSE "update"
  /\ UNCHANGED << stage, tar_tmp, bucket, cross_device, client_vars, environ, main_vars, other, runs, now_local, exc,
                  staged_docs_by_dir, coll_idx, work, edoc_dirs, edoc_dir >>

\* update_many raises (the connection is lost) before it modified a
\* document of the collection.
UpdateRaises ==
  /\ pc = "update"
  /\ exc' = Raised("update", 0, "", edoc_dir, Head(coll_map).coll_name)
  /\ pc' = "failed"
  /\ UNCHANGED << store, stage, tar_tmp, bucket, cross_device, client_vars, environ, main_vars, other, runs, now_local,
                  staged_docs_by_dir, coll_idx, work, edoc_dirs, edoc_dir, coll_map >>

Next ==
  \/ MainInvalidCustomerId
  \/ MainMissingEnv
  \/ ConnectFails
  \/ StartRun
  \/ Exit
  \/ Find
  \/ SkipFile
  \/ StageFile
  \/ StageFileRaises
  \/ NothingStaged
  \/ SaveStagedFiles
  \/ BuildTar
  \/ BuildTarRaises
  \/ SaveDone
  \/ MoveRename
  \/ MoveCopyStart
  \/ MoveRaises
  \/ MoveCopyFinish
  \/ MoveCopyRaises
  \/ CleanUp
  \/ Update
  \/ UpdateRaises

Spec == Init /\ [][Next]_vars

(***************************************************************************)
(* Two job processes for the same tenant.  Nothing in the job coordinates  *)
(* them: they share the database, the staging tree, TAR_TMP_ROOT and the   *)
(* bucket, and each has its own locals.  The variables pc .. coll_map are  *)
(* the locals of the process that takes the next step and other holds the  *)
(* locals of the process that waits; Switch hands the processor over, so   *)
(* the steps of the two processes interleave in every order.  The stores   *)
(* hold attachments with payloads that decode, the two roots are on one    *)
(* device, and a step fails only for what the other process did.           *)
(***************************************************************************)
Switch ==
  /\ other' = [pc |-> pc, now_local |-> now_local, exc |-> exc,
               staged_docs_by_dir |-> staged_docs_by_dir, coll_idx |-> coll_idx,
               work |-> work, edoc_dirs |-> edoc_dirs, edoc_dir |-> edoc_dir,
               coll_map |-> coll_map,
               argv |-> argv, exit_code |-> exit_code, mongo |-> mongo]
  /\ argv' = other.argv
  /\ exit_code' = other.exit_code
  /\ mongo' = other.mongo
  /\ pc' = other.pc
  /\ now_local' = other.now_local
  /\ exc' = other.exc
  /\ staged_docs_by_dir' = other.staged_docs_by_dir
  /\ coll_idx' = other.coll_idx
  /\ work' = other.work
  /\ edoc_dirs' = other.edoc_dirs
  /\ edoc_dir' = other.edoc_dir
  /\ coll_map' = other.coll_map
  /\ UNCHANGED << store, stage, tar_tmp, bucket, cross_device, client_vars, environ, runs >>

\* tarfile.open created the scratch file, edoc_dir.iterdir() raises: the
\* other process removed the directory.
BuildTarDirGone == BuildTarRaises /\ edoc_dir' \notin DOMAIN stage

\* shutil.move raises: the other process moved the scratch archive away.
MoveSourceGone == MoveRaises /\ tar_tmp_path \notin DOMAIN tar_tmp

\* edoc_dir.iterdir() of the clean-up raises: the other process removed the
\* directory.
CleanUpRaises ==
  /\ pc = "cleanup"
  /\ edoc_dir \notin DOMAIN stage
  /\ exc' = Raised("cleanup", 0, "", edoc_dir, "")
  /\ pc' = "failed"
  /\ UNCHANGED << store, stage, tar_tmp, bucket, cross_device, client_vars, environ, main_vars, other, runs, now_local,
                  staged_docs_by_dir, coll_idx, work, edoc_dirs, edoc_dir, coll_map >>

ConcurrentStores ==
  { \* two documents of two collections with the same staging directory
    << Doc(1, CLAVE_A, 700, [pdf |-> Staged(F_A, P_ABC)]),
       Doc(2, CLAVE_B, 700, [pdf |-> Staged(F_B, P_LONG)]) >>,
    \* two documents of one collection with different staging directories
    << Doc(1, CLAVE_A, 700, [pdf |-> Staged(F_A, P_ABC)]),
       Doc(1, CLAVE_C, 700, [pdf |-> Staged(F_B, P_UNPADDED)]) >> }

InitConcurrent ==
  /\ MainInit
  /\ store \in ConcurrentStores
  /\ ClientInit
  /\ environ = required_env_vars
  /\ other = NotStarted
  /\ bucket = InitialBucket(store)
  /\ stage = EmptyMap
  /\ tar_tmp = EmptyMap
  /\ cross_device = FALSE
  /\ pc = "idle"
  /\ runs = 0
  /\ now_local = 0
  /\ exc = NoExc
  /\ staged_docs_by_dir = EmptyMap
  /\ coll_idx = 1
  /\ work = <<>>
  /\ edoc_dirs = {}
  /\ edoc_dir = <<>>
  /\ coll_map = <<>>

NextConcurrent ==
  \/ StartRun
  \/ Exit
  \/ Find
  \/ StageFile
  \/ NothingStaged
  \/ SaveStagedFiles
  \/ BuildTar
  \/ BuildTarDirGone
  \/ SaveDone
  \/ MoveRename
  \/ MoveSourceGone
  \/ CleanUp
  \/ CleanUpRaises
  \/ Update
  \/ Switch

SpecConcurrent == InitConcurrent /\ [][NextConcurrent]_vars

(***************************************************************************)
(* db.py: get_client called from the threads of one process, one action    *)
(* per statement.  A call returns the client or raises RuntimeError; the   *)
(* with statement releases the lock on both ways out.                      *)
(***************************************************************************)
\* A thread leaves get_client with a return value.
Returns(t, value) == [gc EXCEPT ![t] = [@ EXCEPT !.pc = "out", !.ret = value]]

\* A thread leaves get_client with RuntimeError.
Raises(t) ==
  [gc EXCEPT ![t] = [@ EXCEPT !.pc = "out", !.raised = TRUE, !.client = NoClient]]

At(t, label) == [gc EXCEPT ![t].pc = label]

\* The call of get_client by a thread that is not in it.
GcCall(t) ==
  /\ gc[t].pc = "out"
  /\ calls < MaxCalls
  /\ calls' = calls + 1
  /\ gc' = [gc EXCEPT ![t] = [NotCalled EXCEPT !.pc = "check"]]
  /\ UNCHANGED << job_vars, environ, _CLIENT, _CLIENT_LOCK, clients, pinged >>

\* if _CLIENT is not None: return _CLIENT   (outside the lock)
GcCheck(t) ==
  /\ gc[t].pc = "check"
  /\ gc' = IF _CLIENT # NoClient THEN Returns(t, _CLIENT) ELSE At(t, "lock")
  /\ UNCHANGED << job_vars, environ, _CLIENT, _CLIENT_LOCK, clients, pinged, calls >>

\* with _CLIENT_LOCK:
GcAcquire(t) ==
  /\ gc[t].pc = "lock"
  /\ _CLIENT_LOCK = LockFree
  /\ _CLIENT_LOCK' = t
  /\ gc' = At(t, "check_locked")
  /\ UNCHANGED << job_vars, environ, _CLIENT, clients, pinged, calls >>

\* Mutant of GcCheckLocked: no second test of _CLIENT inside the lock.
GcCheckLocked_NoSecondCheck(t) ==
  /\ gc[t].pc = "check_locked"
  /\ gc' = At(t, "build_uri")
  /\ UNCHANGED << job_vars, environ, _CLIENT, _CLIENT_LOCK, clients, pinged, calls >>

\* if _CLIENT is not None: return _CLIENT   (inside the lock)
GcCheckLocked(t) ==
  /\ gc[t].pc = "check_locked"
  /\ IF _CLIENT # NoClient
     THEN gc' = Returns(t, _CLIENT) /\ _CLIENT_LOCK' = LockFree
     ELSE gc' = At(t, "build_uri") /\ UNCHANGED _CLIENT_LOCK
  /\ UNCHANGED << job_vars, environ, _CLIENT, clients, pinged, calls >>

\* uri = _build_uri(): RuntimeError when a variable is not set
GcBuildUri(t) ==
  /\ gc[t].pc = "build_uri"
  /\ IF required_env_vars \subseteq environ
     THEN gc' = At(t, "construct") /\ UNCHANGED _CLIENT_LOCK
     ELSE gc' = Raises(t) /\ _CLIENT_LOCK' = LockFree
  /\ UNCHANGED << job_vars, environ, _CLIENT, clients, pinged, calls >>

\* client = MongoClient(uri, ...)
GcConstruct(t) ==
  /\ gc[t].pc = "construct"
  /\ LET new == Cardinality(clients) + 1
     IN /\ clients' = clients \cup {new}
        /\ gc' = [gc EXCEPT ![t] = [@ EXCEPT !.pc = "ping", !.client = new]]
  /\ UNCHANGED << job_vars, environ, _CLIENT, _CLIENT_LOCK, pinged, calls >>

\* MongoClient(...) raises PyMongoError, re-raised as RuntimeError
GcConstructRaises(t) ==
  /\ gc[t].pc = "construct"
  /\ gc' = Raises(t)
  /\ _CLIENT_LOCK' = LockFree
  /\ UNCHANGED << job_vars, environ, _CLIENT, clients, pinged, calls >>

\* client.admin.command("ping") succeeds
GcPing(t) ==
  /\ gc[t].pc = "ping"
  /\ pinged' = pinged \cup {gc[t].client}
  /\ gc' = At(t, "install")
  /\ UNCHANGED << job_vars, environ, _CLIENT, _CLIENT_LOCK, clients, calls >>

\* the ping raises PyMongoError, re-raised as RuntimeError
GcPingRaises(t) ==
  /\ gc[t].pc = "ping"
  /\ gc' = Raises(t)
  /\ _CLIENT_LOCK' = LockFree
  /\ UNCHANGED << job_vars, environ, _CLIENT, clients, pinged, calls >>

\* _CLIENT = client; return _CLIENT
GcInstall(t) ==
  /\ gc[t].pc = "install"
  /\ _CLIENT' = gc[t].client
  /\ gc' = Returns(t, gc[t].client)
  /\ _CLIENT_LOCK' = LockFree
  /\ UNCHANGED << job_vars, environ, clients, pinged, calls >>

InitClient ==
  /\ MainInit
  /\ ClientInit
  /\ environ \in Environs
  /\ store = CHOOSE st \in Stores : TRUE
  /\ bucket = InitialBucket(store)
  /\ stage = EmptyMap
  /\ tar_tmp = EmptyMap
  /\ cross_device = FALSE
  /\ other = NotStarted
  /\ pc = "idle"
  /\ runs = 0
  /\ now_local = 0
  /\ exc = NoExc
  /\ staged_docs_by_dir = EmptyMap
  /\ coll_idx = 1
  /\ work = <<>>
  /\ edoc_dirs = {}
  /\ edoc_dir = <<>>
  /\ coll_map = <<>>

NextClient ==
  \E t \in Threads :
    \/ GcCall(t)
    \/ GcCheck(t)
    \/ GcAcquire(t)
    \/ GcCheckLocked(t)
    \/ GcBuildUri(t)
    \/ GcConstruct(t)
    \/ GcConstructRaises(t)
    \/ GcPing(t)
    \/ GcPingRaises(t)
    \/ GcInstall(t)

SpecClient == InitClient /\ [][NextClient]_vars

(***************************************************************************)
(* Vocabulary of the properties.                                           *)
(***************************************************************************)
Terminated == pc \in {"done", "failed"}

DocDir(d) == clave_to_rel_path(DocClave(store[d]))

\* The file kind k of document d is one the sweep of the current run stages
\* without error: selected by the query, with a payload, staged or legacy,
\* a clave long enough and a payload the writer accepts.
Stageable(d, k) ==
  /\ Query(store[d], three_hours_ago_utc(now_local))
  /\ k \in DOMAIN store[d].files
  /\ HasBinary(store[d].files[k])
  /\ StatusOrStaged(store[d].files[k]) = "staged"
  /\ Len(DocClave(store[d])) >= MIN_CLAVE_LEN
  /\ write_base64_stream(store[d].files[k].binary.data).ok

\* Document d was recorded under its directory by the sweep of this run.
RecordedThisRun(d) ==
  LET rel_key == JoinSlash(DocDir(d))
  IN /\ rel_key \in DOMAIN staged_docs_by_dir
     /\ store[d].coll \in DOMAIN staged_docs_by_dir[rel_key]
     /\ d \in staged_docs_by_dir[rel_key][store[d].coll]

InStatusBucket(file_doc) == "status" \in DOMAIN file_doc /\ file_doc.status = "bucket"

\* A step commits attachment k of document d: it becomes bucket or loses
\* its binary.
Commits(d, k) ==
  /\ k \in DOMAIN store[d].files
  /\ store'[d].files[k] # store[d].files[k]
  /\ \/ (~ InStatusBucket(store[d].files[k]) /\ InStatusBucket(store'[d].files[k]))
     \/ (~ store[d].files[k].binary.null /\ store'[d].files[k].binary.null)

(***************************************************************************)
(* C1: a document of a group is committed (status bucket, binary null)     *)
(* only in a state where the move of that group's archive has returned:    *)
(* the complete archive is at the group's bucket path and the scratch      *)
(* archive is gone; the committed attachment records that path.            *)
(***************************************************************************)
C1_CommitOnlyAfterMove ==
  [][\A d \in DOMAIN store : \A k \in Kinds :
       Commits(d, k) =>
         LET p == TarPath(DocDir(d), hhmm)
         IN /\ p \in DOMAIN bucket
            /\ bucket[p].complete
            /\ TarTmpPath(DocDir(d), hhmm) \notin DOMAIN tar_tmp
            /\ store'[d].files[k].tarball_path = p]_vars

\* A document was committed in this run after a copy across devices.
C1_Witness ==
  /\ cross_device
  /\ pc \in {"update", "tar"}
  /\ \E d \in DOMAIN store : \E k \in DOMAIN store[d].files :
       /\ RecordedThisRun(d)
       /\ InStatusBucket(store[d].files[k])
       /\ store[d].files[k].tarball_path = TarPath(DocDir(d), hhmm)
       /\ TarPath(DocDir(d), hhmm) \in DOMAIN bucket
       /\ bucket[TarPath(DocDir(d), hhmm)].complete

(***************************************************************************)
(* C2: a commit that archives one kind of a document leaves a sibling kind *)
(* that is already in the bucket exactly as it was.                        *)
(***************************************************************************)
C2_SiblingKindUnchanged ==
  [][\A d \in DOMAIN store : \A k \in DOMAIN store[d].files :
       ( /\ InStatusBucket(store[d].files[k])
         /\ \E j \in DOMAIN store[d].files :
              /\ j # k
              /\ StatusOrStaged(store[d].files[j]) = "staged"
              /\ Commits(d, j) )
       => store'[d].files[k] = store[d].files[k]]_vars

(***************************************************************************)
(* C3: when building or moving the archive of one group fails, the run     *)
(* ends with the documents of that group still staged and with every other *)
(* group archived and committed: no file of another group is left to stage.*)
(***************************************************************************)
C3_ArchiveFailureIsolated ==
  (Terminated /\ exc.op \in {"tar", "move"}) =>
    /\ \A d \in DOMAIN store : \A k \in DOMAIN store[d].files :
         (RecordedThisRun(d) /\ DocDir(d) = exc.dir) =>
            ~ ( /\ InStatusBucket(store[d].files[k])
                /\ store[d].files[k].tarball_path = TarPath(exc.dir, hhmm) )
    /\ \A d \in DOMAIN store : \A k \in Kinds :
         Stageable(d, k) => DocDir(d) = exc.dir

(***************************************************************************)
(* C4: when decoding or writing one payload fails, the run ends with every *)
(* other file archived and committed: the failing file is the only one     *)
(* left to stage.                                                          *)
(***************************************************************************)
C4_StagingFailureIsolated ==
  (Terminated /\ exc.op \in {"binascii.Error", "OSError"}) =>
    \A d \in DOMAIN store : \A k \in Kinds :
      Stageable(d, k) => (d = exc.doc /\ k = exc.kind)

(***************************************************************************)
(* C5: when the clave of a selected document is shorter than 50, nothing   *)
(* is staged or recorded for it and the run ends with the files of the     *)
(* other documents archived and committed: none is left to stage.          *)
(***************************************************************************)
C5_InvalidClaveIsolated ==
  (Terminated /\ exc.op = "ValueError") =>
    /\ ~ RecordedThisRun(exc.doc)
    /\ DocDir(exc.doc) \notin DOMAIN stage
    /\ \A d \in DOMAIN store : \A k \in Kinds : ~ Stageable(d, k)

(***************************************************************************)
(* C6: when the update of one (collection, oid set) pair fails, the        *)
(* documents of that pair stay staged with their binary, and the run ends  *)
(* with the other pairs and groups committed: only documents of the        *)
(* failing pair are left to stage.                                         *)
(***************************************************************************)
FailingPair ==
  IF JoinSlash(exc.dir) \in DOMAIN staged_docs_by_dir
       /\ exc.coll \in DOMAIN staged_docs_by_dir[JoinSlash(exc.dir)]
  THEN staged_docs_by_dir[JoinSlash(exc.dir)][exc.coll]
  ELSE {}

C6_UpdateFailureIsolated ==
  (Terminated /\ exc.op = "update") =>
    /\ \A d \in FailingPair : \A k \in DOMAIN store[d].files :
         ~ ( /\ InStatusBucket(store[d].files[k])
             /\ store[d].files[k].tarball_path = TarPath(exc.dir, hhmm) )
    /\ \A d \in DOMAIN store : \A k \in Kinds :
         Stageable(d, k) => d \in FailingPair

(***************************************************************************)
(* C7: the file at a bucket path is never a partially written archive.     *)
(***************************************************************************)
C7_BucketNeverPartial == \A p \in DOMAIN bucket : bucket[p].complete

(***************************************************************************)
(* C8: an archive that is the tarball_path of a committed attachment is    *)
(* never overwritten: no step changes the file at that bucket path.        *)
(***************************************************************************)
Referenced(p) ==
  \E d \in DOMAIN store : \E k \in DOMAIN store[d].files :
    /\ InStatusBucket(store[d].files[k])
    /\ store[d].files[k].tarball_path = p

C8_CommittedArchiveNotOverwritten ==
  [][\A p \in DOMAIN bucket :
       Referenced(p) => (p \in DOMAIN bucket' /\ bucket'[p] = bucket[p])]_vars

(***************************************************************************)
(* C9: two documents staged under the same directory get one archive that  *)
(* holds the staged files of both, and a run that completes leaves both    *)
(* committed with the path of that archive.                                *)
(***************************************************************************)
\* The archive just built holds the decoded payload of every stageable
\* attachment of document d under the base name of its file.
ArchiveHoldsFilesOf(d) ==
  LET tar == tar_tmp[tar_tmp_path]
  IN \A k \in Kinds :
       Stageable(d, k) =>
         LET name == BaseName(store[d].files[k].filename)
         IN /\ name \in DOMAIN tar.members
            /\ tar.members[name] =
                 write_base64_stream(store[d].files[k].binary.data).bytes

CommittedTo(d, p) ==
  /\ p \in DOMAIN bucket
  /\ bucket[p].complete
  /\ \E k \in DOMAIN store[d].files :
       /\ InStatusBucket(store[d].files[k])
       /\ store[d].files[k].binary.null
       /\ store[d].files[k].tarball_path = p

C9_SameKeyOneArchive ==
  \A d1 \in DOMAIN store : \A d2 \in DOMAIN store :
    ( /\ d1 # d2
      /\ DocDir(d1) = DocDir(d2)
      /\ RecordedThisRun(d1)
      /\ RecordedThisRun(d2) ) =>
       /\ (pc = "move" /\ edoc_dir = DocDir(d1)) =>
             ArchiveHoldsFilesOf(d1) /\ ArchiveHoldsFilesOf(d2)
       /\ pc = "done" =>
             /\ CommittedTo(d1, TarPath(DocDir(d1), hhmm))
             /\ CommittedTo(d2, TarPath(DocDir(d1), hhmm))

(***************************************************************************)
(* C10: a document with a 50-character clave and one pdf attachment,       *)
(* staged, with a base64 payload, and old enough to be selected: the       *)
(* archive of its directory holds a member with the decoded payload, and a *)
(* run that completes leaves the attachment bucket, binary null, with      *)
(* tarball_path <bucket-root>/<tenant>/<year>/<month>/<day>/<branch>/      *)
(* <edoc_type>_<HH-MM>.tar.gz.                                             *)
(***************************************************************************)
OnePdfScenario(d) ==
  /\ Len(DocClave(store[d])) = 50
  /\ DOMAIN store[d].files = {"pdf"}
  /\ RecordedThisRun(d)

C10_EndToEnd ==
  \A d \in DOMAIN store :
    OnePdfScenario(d) =>
      /\ ( /\ pc = "move"
           /\ edoc_dir = DocDir(d)
           /\ Stageable(d, "pdf")
           /\ _is_probably_base64(store[d].files["pdf"].binary.data)
           /\ b64decode(store[d].files["pdf"].binary.data) # DecodeError ) =>
            \E n \in DOMAIN tar_tmp[tar_tmp_path].members :
              tar_tmp[tar_tmp_path].members[n] =
                b64decode(store[d].files["pdf"].binary.data)
      /\ pc = "done" =>
            LET file_doc == store[d].files["pdf"]
                key == clave_to_rel_path(store[d].clave)
            IN /\ InStatusBucket(file_doc)
               /\ file_doc.binary.null
               /\ file_doc.tarball_path =
                    [root |-> FILES_ROOT, customer |-> customer_id,
                     dir |-> << key[1], key[2], key[3], key[4] >>,
                     name |-> TarName(key[5], hhmm_of(now_local))]
               /\ file_doc.tarball_path \in DOMAIN bucket
               /\ bucket[file_doc.tarball_path].complete

(***************************************************************************)
(* Vocabulary of the claims on attachments and discovery.                  *)
(***************************************************************************)
\* The ids of the documents the items of a cursor belong to.
ItemIds(w) == { w[i].id : i \in 1..Len(w) }

\* The cutoff of the current run, in minutes of UTC.
Cutoff == now_local + UTC_OFFSET_MINUTES - STALENESS_MINUTES

\* The invariant of one attachment: a status, if any, is staged or bucket;
\* a payload is held only while the status is staged or absent; in status
\* bucket the payload is null and the path of the archive is set.
AttachmentOk(a) ==
  /\ "status" \in DOMAIN a => a.status \in {"staged", "bucket"}
  /\ ~ a.binary.null => ~ InStatusBucket(a)
  /\ InStatusBucket(a) => a.binary.null /\ "tarball_path" \in DOMAIN a

StoreOk(st) ==
  \A d \in DOMAIN st : \A k \in DOMAIN st[d].files : AttachmentOk(st[d].files[k])

\* Every kind of the document is absent or in status bucket.
AllAbsentOrBucket(doc) == \A k \in DOMAIN doc.files : InStatusBucket(doc.files[k])

(***************************************************************************)
(* C11: over every step of every run, finished or aborted, from a store    *)
(* that satisfies the attachment invariant: the store satisfies it again,  *)
(* an attachment in status bucket stays in status bucket, a status that    *)
(* changes becomes bucket, and a null payload stays null.                  *)
(***************************************************************************)
C11_AttachmentInvariant ==
  [][ StoreOk(store) =>
        /\ StoreOk(store')
        /\ \A d \in DOMAIN store : \A k \in DOMAIN store[d].files :
              /\ d \in DOMAIN store' /\ k \in DOMAIN store'[d].files
              /\ InStatusBucket(store[d].files[k]) => InStatusBucket(store'[d].files[k])
              /\ store'[d].files[k] # store[d].files[k] => InStatusBucket(store'[d].files[k])
              /\ store[d].files[k].binary.null => store'[d].files[k].binary.null ]_vars

\* A second run has ended after attachments were committed, one of them
\* committed in an earlier run than the last commit.
C11_Witness ==
  /\ runs = MaxRuns
  /\ Terminated
  /\ \E d \in DOMAIN store : \E k \in DOMAIN store[d].files :
        /\ InStatusBucket(store[d].files[k])
        /\ "moved_at" \in DOMAIN store[d].files[k]
        /\ store[d].files[k].moved_at < now_local
        /\ store[d].files[k].binary.null

(***************************************************************************)
(* C12: the cursor of a collection holds exactly the documents of the      *)
(* collection whose emission time is at or before the cutoff and that have *)
(* a kind whose status is staged or that has no status field, whatever     *)
(* the payload of that kind.                                               *)
(***************************************************************************)
C12_SelectedIffStagedOrNoStatus ==
  [][ pc = "find" =>
        ItemIds(work') =
          { d \in DOMAIN store :
              /\ store[d].coll = collections[coll_idx]
              /\ store[d].fecha <= Cutoff
              /\ \E k \in DOMAIN store[d].files :
                    \/ "status" \notin DOMAIN store[d].files[k]
                    \/ store[d].files[k].status = "staged" } ]_vars

\* The cursor holds a kind without status and without payload, and a
\* document of the collection is left out of it.
C12_Witness ==
  /\ pc = "files"
  /\ \E i \in 1..Len(work) :
        /\ "status" \notin DOMAIN work[i].file_data
        /\ work[i].file_data.binary.null
  /\ \E d \in DOMAIN store : d \notin ItemIds(work)

\* C12 as stated: a kind without status counts only with a non-empty payload.
C12_SelectedIffStagedOrLegacyWithPayload ==
  [][ pc = "find" =>
        ItemIds(work') =
          { d \in DOMAIN store :
              /\ store[d].coll = collections[coll_idx]
              /\ store[d].fecha <= Cutoff
              /\ \E k \in DOMAIN store[d].files :
                    \/ /\ "status" \notin DOMAIN store[d].files[k]
                       /\ ~ store[d].files[k].binary.null
                       /\ store[d].files[k].binary.data # <<>>
                    \/ /\ "status" \in DOMAIN store[d].files[k]
                       /\ store[d].files[k].status = "staged" } ]_vars

(***************************************************************************)
(* C13: a document whose kinds are all absent or in status bucket is not   *)
(* in the cursor of any run, is not recorded for a group and is not        *)
(* changed by any step.                                                    *)
(***************************************************************************)
C13_BucketDocumentUntouched ==
  [][ \A d \in DOMAIN store :
        AllAbsentOrBucket(store[d]) =>
          /\ d \notin ItemIds(work')
          /\ store'[d] = store[d]
          /\ RecordedThisRun(d)' => RecordedThisRun(d) ]_vars

\* The sweep of a run is over, a document wholly in the bucket is in the
\* store and the run staged another document.
C13_Witness ==
  /\ pc = "sweep_done"
  /\ staged_docs_by_dir # EmptyMap
  /\ \E d \in DOMAIN store :
        /\ AllAbsentOrBucket(store[d])
        /\ store[d].fecha <= Cutoff

(***************************************************************************)
(* C14: a document whose emission time is after the cutoff of the run is   *)
(* not in the cursor, whatever the status of its attachments, and no step  *)
(* of the run changes it.                                                  *)
(***************************************************************************)
C14_NewerDocumentUntouched ==
  [][ pc \notin {"idle", "done", "failed"} =>
        \A d \in DOMAIN store :
          store[d].fecha > Cutoff =>
            /\ d \notin ItemIds(work')
            /\ store'[d] = store[d] ]_vars

\* A run has committed an older document of the collection of a newer
\* document that has a staged payload.
C14_Witness ==
  /\ pc = "done"
  /\ \E d \in DOMAIN store : \E e \in DOMAIN store :
        /\ store[d].fecha > Cutoff
        /\ \E k \in DOMAIN store[d].files :
              StatusOrStaged(store[d].files[k]) = "staged" /\ HasBinary(store[d].files[k])
        /\ store[e].coll = store[d].coll
        /\ \E k \in DOMAIN store[e].files :
              InStatusBucket(store[e].files[k]) /\ store[e].files[k].moved_at = now_local

(***************************************************************************)
(* Vocabulary of the claims on the commit.                                 *)
(***************************************************************************)
\* The bucket paths a run started at one of the times of the model computes
\* for the directory of a document of the store.
CommitPaths ==
  { TarPath(clave_to_rel_path(DocClave(store[d])), hhmm_of(t)) :
      d \in DOMAIN store, t \in RunTimes }

(***************************************************************************)
(* C15: for every collection, set of ids, archive path and timestamp,      *)
(* update_documents_for_tarball applied to its own result gives that       *)
(* result again.                                                           *)
(***************************************************************************)
C15_CommitIdempotent ==
  \A c \in Range(collections) : \A oids \in SUBSET DOMAIN store :
    \A p \in CommitPaths : \A t \in RunTimes :
      LET once == update_documents_for_tarball(store, c, oids, p, t)
      IN update_documents_for_tarball(once, c, oids, p, t) = once

\* The run is about to commit a collection of a group, the commit changes
\* the store, and a second application changes nothing more.
C15_Witness ==
  /\ pc = "update"
  /\ LET once == update_documents_for_tarball(store, Head(coll_map).coll_name,
                                              Head(coll_map).oid_set,
                                              TarPath(edoc_dir, hhmm), now_local)
     IN /\ once # store
        /\ update_documents_for_tarball(once, Head(coll_map).coll_name,
                                        Head(coll_map).oid_set,
                                        TarPath(edoc_dir, hhmm), now_local) = once

(***************************************************************************)
(* C16: no step creates or deletes a document; only the commit changes     *)
(* documents, and only those of the given collection whose id is in the    *)
(* given set; with an empty set the commit changes nothing.                *)
(***************************************************************************)
C16_CommitFrame ==
  [][ /\ DOMAIN store' = DOMAIN store
      /\ pc # "update" => store' = store
      /\ pc = "update" =>
           \A d \in DOMAIN store :
             (d \notin Head(coll_map).oid_set \/ store[d].coll # Head(coll_map).coll_name)
               => store'[d] = store[d]
      /\ \A c \in Range(collections) : \A p \in CommitPaths :
           update_documents_for_tarball(store, c, {}, p, now_local) = store ]_vars

\* A commit of this run changed a document and left another document of
\* the same collection, with a staged kind, as it was.
C16_Witness ==
  /\ pc \in {"tar", "update", "done"}
  /\ \E d \in DOMAIN store : \E e \in DOMAIN store :
        /\ d # e
        /\ store[d].coll = store[e].coll
        /\ \E k \in DOMAIN store[d].files :
              /\ "moved_at" \in DOMAIN store[d].files[k]
              /\ store[d].files[k].moved_at = now_local
        /\ \E k \in DOMAIN store[e].files :
              /\ "status" \in DOMAIN store[e].files[k]
              /\ store[e].files[k].status = "staged"

(***************************************************************************)
(* C17: when the build of an archive starts, the sweep over the five       *)
(* collections is over and every file the sweep stages is on disk under    *)
(* its directory; while archives are built, moved and committed no cursor  *)
(* is open.                                                                *)
(***************************************************************************)
C17_ArchiveAfterSweep ==
  [][ /\ pc \in {"tar", "move", "copying", "cleanup", "update"} =>
           work = <<>> /\ coll_idx = Len(collections)
      /\ (pc = "tar" /\ pc' \in {"move", "failed"}) =>
           \A d \in DOMAIN store : \A k \in Kinds :
             Stageable(d, k) =>
               /\ DocDir(d) \in DOMAIN stage
               /\ BaseName(store[d].files[k].filename) \in DOMAIN stage[DocDir(d)] ]_vars

\* The archive of a directory has been built from the files of documents
\* of two collections.
C17_Witness ==
  /\ pc = "move"
  /\ \E d \in DOMAIN store : \E e \in DOMAIN store :
        /\ store[d].coll # store[e].coll
        /\ RecordedThisRun(d) /\ RecordedThisRun(e)
        /\ DocDir(d) = edoc_dir /\ DocDir(e) = edoc_dir
        /\ Cardinality(DOMAIN tar_tmp[TarTmpPath(edoc_dir, hhmm)].members) = 2

(***************************************************************************)
(* C18: a step removes a staged file or directory only when the complete   *)
(* archive of that directory is at its bucket path and the scratch archive *)
(* is gone; a step on which the build or the move fails leaves the staging *)
(* tree as it was, with the directory in it; once the clean-up has run the *)
(* directory is gone.                                                      *)
(***************************************************************************)
C18_CleanUpOnlyAfterMove ==
  [][ /\ \A dir \in DOMAIN stage :
           (dir \notin DOMAIN stage' \/ DOMAIN stage[dir] # DOMAIN stage'[dir] \cap DOMAIN stage[dir]) =>
             /\ TarPath(dir, hhmm) \in DOMAIN bucket
             /\ bucket[TarPath(dir, hhmm)] = Archive(stage[dir])
             /\ TarTmpPath(dir, hhmm) \notin DOMAIN tar_tmp
      /\ (pc' = "failed" /\ exc'.op \in {"tar", "move"}) =>
           stage' = stage /\ exc'.dir \in DOMAIN stage'
      /\ pc = "cleanup" => edoc_dir \notin DOMAIN stage' ]_vars

\* The move of a directory's archive succeeded and the clean-up has run:
\* the archive is in the bucket and the directory is gone.
C18_Witness ==
  /\ pc = "update"
  /\ edoc_dir \notin DOMAIN stage
  /\ TarPath(edoc_dir, hhmm) \in DOMAIN bucket
  /\ bucket[TarPath(edoc_dir, hhmm)].complete
  /\ DOMAIN bucket[TarPath(edoc_dir, hhmm)].members # {}

(***************************************************************************)
(* C19: when the sweep stages a payload that write_base64_stream takes for *)
(* base64 and that decodes as a whole, the call returns and the file holds *)
(* the bytes of the decoding of the whole payload (a step on which the     *)
(* file system fails aside).                                               *)
(***************************************************************************)
C19_ChunkedEqualsWhole ==
  [][ ( /\ pc = "files"
        /\ HasBinary(Head(work).file_data)
        /\ StatusOrStaged(Head(work).file_data) = "staged"
        /\ Len(Head(work).clave) >= MIN_CLAVE_LEN
        /\ _is_probably_base64(Head(work).file_data.binary.data)
        /\ b64decode(Head(work).file_data.binary.data) # DecodeError
        /\ ~ (pc' = "failed" /\ exc'.op = "OSError") )
      => /\ pc' # "failed"
         /\ stage'[clave_to_rel_path(Head(work).clave)]
                  [BaseName(Head(work).file_data.filename)]
              = b64decode(Head(work).file_data.binary.data) ]_vars

(***************************************************************************)
(* Vocabulary of the claim on two job processes.                           *)
(***************************************************************************)
RecordedIn(by_dir, d) ==
  LET rel_key == JoinSlash(DocDir(d))
  IN /\ rel_key \in DOMAIN by_dir
     /\ store[d].coll \in DOMAIN by_dir[rel_key]
     /\ d \in by_dir[rel_key][store[d].coll]

\* Both processes staged the payload of document d in their runs.
StagedTwice(d) == RecordedIn(staged_docs_by_dir, d) /\ RecordedIn(other.staged_docs_by_dir, d)

\* Attachment k of document d is committed (status bucket, binary null)
\* and the archive at its tarball_path does not hold its file.
LostUpdate(d, k) ==
  /\ k \in DOMAIN store[d].files
  /\ InStatusBucket(store[d].files[k])
  /\ store[d].files[k].binary.null
  /\ \/ store[d].files[k].tarball_path \notin DOMAIN bucket
     \/ ~ bucket[store[d].files[k].tarball_path].complete
     \/ BaseName(store[d].files[k].filename)
          \notin DOMAIN bucket[store[d].files[k].tarball_path].members

\* At most one of the two processes has started.
OneProcessOnly == pc = "idle" \/ other.pc = "idle"

(***************************************************************************)
(* C20: duplicate staging and lost updates come from the second process:   *)
(* while only one process has started, no payload is staged by two runs at *)
(* once and no committed attachment points to an archive without its file; *)
(* with two processes there is an interleaving (the witness) that ends     *)
(* with a payload staged by both and a committed attachment whose archive  *)
(* does not hold its file.                                                 *)
(***************************************************************************)
C20_OnlyConcurrentRunsLose ==
  OneProcessOnly =>
    \A d \in DOMAIN store : ~ StagedTwice(d) /\ \A k \in Kinds : ~ LostUpdate(d, k)

\* Both processes ran to the end without error, a payload was staged by
\* both, and a committed attachment points to an archive without its file.
C20_Witness ==
  /\ pc = "done" /\ other.pc = "done"
  /\ \E d \in DOMAIN store : StagedTwice(d)
  /\ \E d \in DOMAIN store : \E k \in Kinds : LostUpdate(d, k)

(***************************************************************************)
(* C21: for every interleaving of calls of get_client by the threads of a  *)
(* process: once a client is installed in _CLIENT it is never replaced;    *)
(* every call that returned holds the installed client; the installed      *)
(* client is one whose ping succeeded; and a step on which a call raises   *)
(* leaves _CLIENT unset and the lock free, so that a later call            *)
(* constructs again.                                                       *)
(***************************************************************************)
C21_ClientSingleton ==
  [][ /\ _CLIENT # NoClient => _CLIENT' = _CLIENT
      /\ \A t \in Threads :
           (gc'[t].pc = "out" /\ gc'[t].ret # NoClient) => gc'[t].ret = _CLIENT'
      /\ _CLIENT' # NoClient => _CLIENT' \in pinged'
      /\ \A t \in Threads :
           (gc'[t].raised /\ ~ gc[t].raised) =>
             _CLIENT' = NoClient /\ _CLIENT_LOCK' = LockFree ]_vars

\* A construction failed, a later call installed a client, and a call of
\* the other thread returned that same client.
C21_Witness ==
  /\ _CLIENT # NoClient
  /\ Cardinality(clients) > Cardinality(pinged)
  /\ \A t \in Threads : gc[t].pc = "out" /\ gc[t].ret = _CLIENT

(***************************************************************************)
(* Vocabulary of the claim on the exit status.                             *)
(***************************************************************************)
\* The invocation passes the two checks of __main__.
ChecksPass(arg, env) == MatchCustomerId(arg) /\ required_env_vars \subseteq env

(***************************************************************************)
(* C22: a process that has exited has status 0 exactly when run_job        *)
(* returned, and status 1 otherwise: after a customer id the pattern       *)
(* rejects, after a missing variable, after a failed connection and after  *)
(* an exception in the run; an invocation with a rejected id or a missing  *)
(* variable ends at once with status 1, opens no connection and leaves     *)
(* the database, the staging tree, the scratch archives and the bucket as  *)
(* they were.                                                              *)
(***************************************************************************)
C22_ExitStatus ==
  [][ /\ exit_code' # <<>> =>
           /\ exit_code' \in { << EXIT_OK >>, << EXIT_FAILURE >> }
           /\ exit_code' = << EXIT_OK >> <=> pc' = "done"
           /\ (pc' \in {"failed", "rejected"} \/ mongo' = "failed" \/ exc'.op # "none")
                => exit_code' = << EXIT_FAILURE >>
      /\ (pc' # "idle" /\ ~ ChecksPass(argv', environ')) =>
           /\ pc' = "rejected"
           /\ exit_code' = << EXIT_FAILURE >>
           /\ mongo' = "none"
           /\ UNCHANGED << store, stage, tar_tmp, bucket >>
      /\ mongo' = "failed" => pc' = "failed" /\ UNCHANGED << store, stage, tar_tmp, bucket >> ]_vars

\* After a process that committed attachments and exited, a process with
\* a rejected customer id or a missing variable has exited with status 1
\* without a connection.
C22_Witness ==
  /\ pc = "rejected"
  /\ ~ ChecksPass(argv, environ)
  /\ exit_code = << EXIT_FAILURE >>
  /\ mongo = "none"
  /\ now_local \in RunTimes
  /\ \E d \in DOMAIN store : \E k \in DOMAIN store[d].files :
        "moved_at" \in DOMAIN store[d].files[k] /\ store[d].files[k].moved_at = now_local

(***************************************************************************)
(* C23: an attachment that a commit changes was staged by the sweep of     *)
(* the run (it held a payload and its status was staged or missing) and    *)
(* the archive at the tarball_path it is given holds a member under its    *)
(* file name.                                                              *)
(***************************************************************************)
C23_OnlyStagedKindsCommitted ==
  [][ pc = "update" =>
        \A d \in DOMAIN store : \A k \in DOMAIN store[d].files :
          store'[d].files[k] # store[d].files[k] =>
            /\ HasBinary(store[d].files[k])
            /\ StatusOrStaged(store[d].files[k]) = "staged"
            /\ store'[d].files[k].tarball_path \in DOMAIN bucket
            /\ BaseName(store[d].files[k].filename)
                 \in DOMAIN bucket[store'[d].files[k].tarball_path].members ]_vars

(***************************************************************************)
(* C24: the archive built for a directory holds, for every document the    *)
(* run recorded under that directory, one member per staged attachment of  *)
(* the document, with the decoded bytes of that attachment, also when two  *)
(* attachments have the same base file name.                               *)
(***************************************************************************)
C24_NoPayloadLostInGroup ==
  pc = "move" =>
    \A d \in DOMAIN store :
      (RecordedThisRun(d) /\ DocDir(d) = edoc_dir) =>
        \A k \in Kinds :
          Stageable(d, k) =>
            /\ BaseName(store[d].files[k].filename)
                 \in DOMAIN tar_tmp[TarTmpPath(edoc_dir, hhmm)].members
            /\ tar_tmp[TarTmpPath(edoc_dir, hhmm)].members[BaseName(store[d].files[k].filename)]
                 = write_base64_stream(store[d].files[k].binary.data).bytes

(***************************************************************************)
(* C25: when run_job has returned, no document matches the discovery       *)
(* query of that run any more.                                             *)
(***************************************************************************)
C25_SelectedDocumentsLeaveTheQueue ==
  pc = "done" =>
    \A d \in DOMAIN store : ~ Query(store[d], Cutoff)

(***************************************************************************)
(* Vocabulary of the claim on what is archived.                            *)
(***************************************************************************)
\* The file names the sweep of the current run wrote under a directory.
StagedNames(dir) ==
  { BaseName(store[r[1]].files[r[2]].filename) :
      r \in { q \in (DOMAIN store) \X Kinds :
                /\ RecordedThisRun(q[1])
                /\ DocDir(q[1]) = dir
                /\ q[2] \in DOMAIN store[q[1]].files
                /\ HasBinary(store[q[1]].files[q[2]])
                /\ StatusOrStaged(store[q[1]].files[q[2]]) = "staged" } }

(***************************************************************************)
(* C26: a directory whose archive is built has an entry in                 *)
(* staged_docs_by_dir, and every member of the archive is a file the sweep *)
(* of the current run wrote.                                               *)
(***************************************************************************)
C26_ArchivesOnlyThisRun ==
  [][ (pc = "tar" /\ pc' = "move") =>
        /\ JoinSlash(edoc_dir') \in DOMAIN staged_docs_by_dir
        /\ DOMAIN tar_tmp'[TarTmpPath(edoc_dir', hhmm)].members \subseteq StagedNames(edoc_dir') ]_vars

\* An earlier run was aborted while it built the archive of a directory
\* and left the staged files there; the current run has staged again and
\* built the archive of that directory.
C26_Witness ==
  /\ pc = "move"
  /\ JoinSlash(edoc_dir) \in DOMAIN staged_docs_by_dir
  /\ \E t \in RunTimes :
        /\ t < now_local
        /\ hhmm_of(t) # hhmm
        /\ TarTmpPath(edoc_dir, hhmm_of(t)) \in DOMAIN tar_tmp
        /\ ~ tar_tmp[TarTmpPath(edoc_dir, hhmm_of(t))].complete
  /\ DOMAIN tar_tmp[TarTmpPath(edoc_dir, hhmm)].members = StagedNames(edoc_dir)

====
